---- MODULE Spec2Model ----
(***************************************************************************)
(* Order fulfilment of hamro-pasal-backend: createOrder, cancelMyOrder and *)
(* updateOrderStatus of src/controllers/orderController.js, the payment    *)
(* handlers of controllers/paymentController.js, the shipping address     *)
(* handlers of src/controllers/shippingAddressController.js, addToCart and *)
(* the catalog edit of src/controllers/productController.js, running as    *)
(* concurrent request handlers over one PostgreSQL database (Prisma).      *)
(*                                                                         *)
(* stock and orders hold the COMMITTED rows.  A handler inside             *)
(* prisma.$transaction holds the row locks of the products it has updated  *)
(* (lock) until it commits or rolls back; its uncommitted updates are the  *)
(* first k-1 lines of its item list and are derived from its position k.   *)
(* A statement on a row locked by another transaction waits, and when it   *)
(* runs it sees the latest committed row (READ COMMITTED).                 *)
(*                                                                         *)
(* Money is counted in units of 0.0001, so that 10.00 is 100000: Prisma's  *)
(* Decimal computes exactly, and a DECIMAL(12,2) column rounds what it     *)
(* stores to a multiple of 100 units.                                      *)
(***************************************************************************)
EXTENDS Integers, Sequences, FiniteSets, TLC

\* number of request handlers that run (each slot serves one request)
MaxReq == 3

Requests == 1..MaxReq

Products == {"p1", "p2"}

\* the callers of the requests: an ordinary user (owner of the orders the
\* model creates), an administrator, and a request without req.user
Callers == {"u1", "admin", "none"}

isAdmin(c) == c = "admin"

Line(p, q) == [productId |-> p, quantity |-> q]

\* the request bodies the model submits to createOrder
ItemLists ==
  { <<Line("p1", 6)>>,
    <<Line("p1", 6), Line("p1", 6)>>,
    <<Line("p1", 1), Line("p2", 1)>>,
    <<Line("p2", 1), Line("p1", 1)>>,
    <<Line("p1", 0)>>,
    << >> }

\* the createOrder requests: caller, items, and whether the body carries a
\* shippingAddress and a paymentMethod
CreateInputs ==
  {<<"u1", items, FALSE, FALSE>> : items \in ItemLists}
    \cup {<<"u1", <<Line("p1", 1), Line("p2", 1)>>, TRUE, TRUE>>,
          <<"none", <<Line("p1", 6)>>, FALSE, FALSE>>}

\* the request bodies of the specification of createOrder's checks: good
\* ones, an empty list, quantities 0 and -1, a product id that is not in the
\* catalog, and more pieces of p2 than its stock of 1
IntakeItemLists ==
  { <<Line("p1", 1)>>,
    <<Line("p2", 1)>>,
    <<Line("p1", 1), Line("p2", 1)>>,
    << >>,
    <<Line("p1", 0)>>,
    <<Line("p1", 1), Line("p2", -1)>>,
    <<Line("px", 1)>>,
    <<Line("p1", 1), Line("p2", 2)>> }

\* the createOrder requests of that specification: req.user, the userId of
\* the body, the items, shippingAddress and paymentMethod
IntakeInputs ==
  {<<"u1", "none", items, FALSE, FALSE>> : items \in IntakeItemLists}
    \cup {<<"none", "none", <<Line("p1", 1)>>, FALSE, FALSE>>,
          <<"none", "u1", <<Line("p1", 1)>>, FALSE, TRUE>>}

\* price of the body of PUT /api/products/:id; 0: the body has no price
PriceInputs == {0, 125000}

\* isActive of that body, "absent" when it is no boolean
ActiveInputs == {"absent", "true", "false"}

\* the callers of the payment requests: the owner u1 of the orders, another
\* user, an administrator, and a request without req.user
PayCallers == Callers \cup {"u2"}

\* enum PaymentStatus of the database, which is also the list allowed of
\* updatePaymentStatus
PaymentStatus == {"PENDING", "PAID", "FAILED", "REFUNDED"}

\* the (status, transactionId) bodies of the updatePaymentStatus requests;
\* "" is a body without transactionId
PayStatusInputs == {<<"PAID", "t2">>, <<"FAILED", "">>, <<"WRONG", "">>}

\* provider and transactionId of the body of the createPayment requests
\* the bodies of the updatePaymentStatus requests of StatusSpec: every status
\* of the enum, PAID with a transaction id, and a status outside the enum
StatusBodies ==
  {<<"PENDING", "">>, <<"PAID", "t2">>, <<"FAILED", "">>,
   <<"REFUNDED", "">>, <<"WRONG", "">>}

\* the bodies of the addToCart requests: p1 and p2 with quantity 1, p1 with
\* quantity 2, a quantity below 1 and a product that does not exist
CartBodies ==
  {Line("p1", 1), Line("p1", 2), Line("p2", 1), Line("p1", 0),
   Line("px", 1)}

\* the shippingAddress of the createOrder requests that carry one
OrderAddress == "a0"

\* the bodies of the createShippingAddress requests: an address with its six
\* fields, and one that lacks a field
AddressBodies == {"a1", ""}

\* the body of the updateShippingAddress requests
UpdatedAddress == "a2"

PayProvider == "STRIPE"

PayTransactionId == "t1"

\* the stock of the catalog when the first request arrives
InitStock == [p \in Products |-> IF p = "p1" THEN 10 ELSE 1]

\* the prices of the catalog when the first request arrives: 10.00 and 9.99
InitPrice == [p \in Products |-> IF p = "p1" THEN 100000 ELSE 99900]

\* Product.name
ProductName(p) == IF p = "p1" THEN "Wireless Headphones" ELSE "Smart Watch"

\* paymentMethod of the createOrder bodies that carry one
PaymentMethod == "COD"

\* status values a client may put in the body of PATCH /:id/status
StatusInputs ==
  {"PENDING", "PROCESSING", "PAID", "SHIPPED", "DELIVERED", "CANCELED", "WRONG"}

\* enum OrderStatus of the database
OrderStatus == {"PENDING", "PROCESSING", "SHIPPED", "DELIVERED", "CANCELED"}

\* allowedStatuses of updateOrderStatus
allowedStatuses == {"PENDING", "PAID", "SHIPPED", "DELIVERED", "CANCELED"}

\* the (caller, status) pairs of the updateOrderStatus requests
UpdateInputs ==
  {<<"admin", t>> : t \in StatusInputs} \cup {<<"u1", "CANCELED">>}

VARIABLES
  stock,      \* Product.stock of every product, as committed
  price,      \* Product.price of every product
  active,     \* Product.isActive of every product
  orders,     \* the Order rows with their OrderItems; the id is the index
  payments,   \* the Payment rows, in the order of their creation
  addresses,  \* the ShippingAddress rows, in the order of their creation
  carts,      \* the users who have a Cart row (userId is unique)
  cartItems,  \* the CartItem rows
  lock,       \* the transaction holding the row lock of each product, or 0
  req         \* the request handlers

vars ==
  <<stock, price, active, orders, payments, addresses, carts, cartItems,
    lock, req>>

\* a catalog read that has not happened
NoQuote == [p \in Products |-> 0]

IdleReq ==
  [op |-> "none", caller |-> "none", items |-> << >>, id |-> 0,
   target |-> "", addr |-> FALSE, pay |-> FALSE, pc |-> "idle", k |-> 0,
   seen |-> "", outcome |-> 0, conc |-> {},
   bodyUser |-> "none", quote |-> NoQuote, txn |-> "", seenTxn |-> "",
   amt |-> 0, msg |-> "", body |-> ""]

\* the requests for operation op whose handler has begun and has not
\* answered yet
InFlight(op) ==
  {r \in Requests :
     req[r].op = op
     /\ req[r].pc \in {"start", "tx", "cart", "check", "write"}}

RECURSIVE QtyUpTo(_, _, _)
\* total quantity of product p in the first n lines of items
QtyUpTo(items, n, p) ==
  IF n = 0 THEN 0
  ELSE QtyUpTo(items, n - 1, p)
       + (IF items[n].productId = p THEN items[n].quantity ELSE 0)

QtyOf(items, p) == QtyUpTo(items, Len(items), p)

\* validateCreateOrderInput: 0 when the body passes, else the HTTP status
validateCreateOrderInput(items) ==
  IF Len(items) = 0 THEN 400
  ELSE IF \E i \in 1..Len(items) : items[i].quantity <= 0 THEN 400
  ELSE 0

RECURSIVE lineErrorFrom_ignoresInactive(_, _, _, _)
lineErrorFrom_ignoresInactive(items, i, stk, act) ==
  IF i > Len(items) THEN 0
  ELSE IF items[i].productId \notin Products THEN 404
  ELSE IF items[i].quantity <= 0 THEN 400
  ELSE IF items[i].quantity > stk[items[i].productId] THEN 400
  ELSE lineErrorFrom_ignoresInactive(items, i + 1, stk, act)

RECURSIVE lineErrorFrom(_, _, _, _)
\* the items.map callback of computeOrderTotals, from line i on: the status
\* of the first line that throws, 0 when no line throws
lineErrorFrom(items, i, stk, act) ==
  IF i > Len(items) THEN 0
  ELSE IF items[i].productId \notin Products THEN 404
  ELSE IF ~act[items[i].productId] THEN 400
  ELSE IF items[i].quantity <= 0 THEN 400
  ELSE IF items[i].quantity > stk[items[i].productId] THEN 400
  ELSE lineErrorFrom(items, i + 1, stk, act)

\* computeOrderTotals over the catalog read by its one findMany: the status
\* it throws, 0 when it returns the totals
computeOrderTotals(items, stk, act) == lineErrorFrom(items, 1, stk, act)

\* TAX_RATE, in percent
TAX_RATE == 15

BASE_SHIPPING_FEE == 0

DEFAULT_DISCOUNT == 0

\* what a DECIMAL(12,2) column stores of the amount u >= 0: PostgreSQL
\* rounds to two decimals, half away from zero
toColumn(u) == ((u + 50) \div 100) * 100

\* orderItemsData of computeOrderTotals: the snapshot of every line, priced
\* with the catalog prices pr read by the findMany
orderItemsData(items, pr) ==
  [i \in 1..Len(items) |->
     [unitPrice |-> pr[items[i].productId],
      subtotal |-> pr[items[i].productId] * items[i].quantity,
      productName |-> ProductName(items[i].productId)]]

RECURSIVE subtotalUpTo(_, _)
\* subtotal = subtotal.add(lineSubtotal) over the first n lines
subtotalUpTo(data, n) ==
  IF n = 0 THEN 0 ELSE subtotalUpTo(data, n - 1) + data[n].subtotal

taxOf_flat(subtotal) == TAX_RATE

\* const tax = subtotal.mul(TAX_RATE)
taxOf(subtotal) == (subtotal * TAX_RATE) \div 100

\* the totals computeOrderTotals returns, exact as Prisma.Decimal holds them
orderTotals(items, pr) ==
  LET data == orderItemsData(items, pr)
      subtotal == subtotalUpTo(data, Len(data))
      tax == taxOf(subtotal)
  IN  [subtotal |-> subtotal, tax |-> tax,
       discount |-> DEFAULT_DISCOUNT, shippingFee |-> BASE_SHIPPING_FEE,
       total |-> subtotal + tax + BASE_SHIPPING_FEE - DEFAULT_DISCOUNT,
       orderItemsData |-> data]

\* the Order row with its OrderItem rows that tx.order.create stores: items
\* holds productId and quantity of the OrderItems, priced their snapshot
\* columns; every amount goes through its DECIMAL(12,2) column
orderRow(userId, items, pr) ==
  LET t == orderTotals(items, pr)
  IN  [userId |-> userId, status |-> "PENDING", items |-> items,
       priced |-> [i \in 1..Len(items) |->
                    [unitPrice |-> toColumn(t.orderItemsData[i].unitPrice),
                     subtotal |-> toColumn(t.orderItemsData[i].subtotal),
                     productName |-> t.orderItemsData[i].productName]],
       subtotal |-> toColumn(t.subtotal), tax |-> toColumn(t.tax),
       discount |-> toColumn(t.discount),
       shippingFee |-> toColumn(t.shippingFee),
       total |-> toColumn(t.total)]

\* const userId = req?.user?.id || req.body.userId of createOrder, for the
\* authenticated caller c and the userId b of the body ("none": absent)
userIdOf(c, b) == IF c # "none" THEN c ELSE b

reserveMatches_unconditional(cur, q) == TRUE

\* where: { id, stock: { gte: quantity } } of the updateMany in createOrder
reserveMatches(cur, q) == cur >= q

reserveQty_one(item) == 1

\* data: { stock: { decrement: item.quantity } } of the same updateMany
reserveQty(item) == item.quantity

RECURSIVE DecUpTo(_, _, _)
\* what the updateMany calls of lines 1..n of a transaction have taken off
\* the stock of product p
DecUpTo(items, n, p) ==
  IF n = 0 THEN 0
  ELSE DecUpTo(items, n - 1, p)
       + (IF items[n].productId = p THEN reserveQty(items[n]) ELSE 0)

rollback_keepsWrites(stk, items, k) ==
  [p \in Products |-> stk[p] - DecUpTo(items, k - 1, p)]

\* the committed stock after prisma.$transaction rejects at line k: the
\* decrements of lines 1..k-1 were never committed
rollback(stk, items, k) == stk

cancelable_anyOpen(status) == status \in {"PENDING", "SHIPPED"}

\* existing.status !== "PENDING" of cancelMyOrder, negated
cancelable(status) == status = "PENDING"

restoreQty_none(items, p) == 0

\* data: { stock: { increment: item.quantity } } over existing.orderItems
restoreQty(items, p) == QtyOf(items, p)

mayUpdateStatus_anyone(c) == c # "none"

\* const isAdmin = !!req?.user?.isAdmin of updateOrderStatus
mayUpdateStatus(c) == isAdmin(c)

\* prisma.payment.findUnique({ where: { orderId } }) over the Payment rows:
\* the indices of the rows of order o
findPayment(rows, o) == {i \in DOMAIN rows : rows[i].orderId = o}

existingPayment_never(rows, o) == FALSE

\* if (existing) of createPayment
existingPayment(rows, o) == findPayment(rows, o) # {}

uniqueViolation_noIndex(rows, o) == FALSE

\* the unique index on Payment.orderId rejects the insert of a second row
\* for order o (Prisma error P2002)
uniqueViolation(rows, o) == findPayment(rows, o) # {}

refundable_unlessRefunded(status) == status # "REFUNDED"

\* payment.status !== "PAID" of refundPayment, negated
refundable(status) == status = "PAID"

\* prisma.payment.update({ where: { orderId }, data }): the rows with the
\* columns status and transactionId of the row of order o set
updatePayment(rows, o, status, txn) ==
  [i \in DOMAIN rows |->
     IF rows[i].orderId = o
     THEN [rows[i] EXCEPT !.status = status, !.transactionId = txn]
     ELSE rows[i]]

\* the locks of the products with r's locks released
Unlock(r) == [p \in Products |-> IF lock[p] = r THEN 0 ELSE lock[p]]

\* the handler of r answers with status code: the slot keeps what the answer
\* and the log show (the operation, the status, the items of a createOrder
\* and the order a createOrder or cancelMyOrder acted on)
Answer(r, code, id) ==
  [req EXCEPT ![r] = [IdleReq EXCEPT !.op = req[r].op, !.pc = "done",
     !.outcome = code, !.conc = req[r].conc, !.id = id,
     !.items = IF req[r].op = "createOrder" THEN req[r].items ELSE << >>]]

\* the handler of r answers with status code and the message m of its error
AnswerMsg(r, code, id, m) == [Answer(r, code, id) EXCEPT ![r].msg = m]

Init ==
  /\ stock = InitStock
  /\ price = InitPrice
  /\ active = [p \in Products |-> TRUE]
  /\ orders = << >>
  /\ payments = << >>
  /\ addresses = << >>
  /\ carts = {}
  /\ cartItems = << >>
  /\ lock = [p \in Products |-> 0]
  /\ req = [r \in Requests |-> IdleReq]

\* a request arrives at slot r (slots are taken in order)
CanBegin(r) ==
  /\ req[r].pc = "idle"
  /\ IF r = 1 THEN TRUE ELSE req[r - 1].pc # "idle"

\* POST /api/orders reaches createOrder: req.user is c, the body holds
\* userId b, the items, and possibly a shippingAddress and a paymentMethod
BeginCreateOrder(r, c, b, items, addr, pay) ==
  /\ CanBegin(r)
  /\ req' = [req EXCEPT ![r] = [IdleReq EXCEPT !.op = "createOrder",
               !.caller = c, !.bodyUser = b, !.items = items, !.addr = addr,
               !.pay = pay, !.pc = "start",
               !.conc = InFlight("createOrder")]]
  /\ UNCHANGED <<stock, price, active, orders, payments, addresses, lock,
                 carts, cartItems>>

\* PATCH /api/orders/:id/cancel reaches cancelMyOrder
BeginCancel(r, c, id) ==
  /\ CanBegin(r)
  /\ req' = [req EXCEPT ![r] = [IdleReq EXCEPT !.op = "cancelMyOrder",
               !.caller = c, !.id = id, !.pc = "start",
               !.conc = InFlight("cancelMyOrder")]]
  /\ UNCHANGED <<stock, price, active, orders, payments, addresses, lock,
                 carts, cartItems>>

\* PATCH /api/orders/:id/status reaches updateOrderStatus
BeginUpdate(r, c, id, t) ==
  /\ CanBegin(r)
  /\ req' = [req EXCEPT ![r] = [IdleReq EXCEPT !.op = "updateOrderStatus",
               !.caller = c, !.id = id, !.target = t, !.pc = "start",
               !.conc = InFlight("updateOrderStatus")]]
  /\ UNCHANGED <<stock, price, active, orders, payments, addresses, lock,
                 carts, cartItems>>

\* createOrder up to the end of computeOrderTotals
CreateOrderPrice(r) ==
  /\ req[r].op = "createOrder" /\ req[r].pc = "start"
  /\ LET items == req[r].items
         err == IF userIdOf(req[r].caller, req[r].bodyUser) = "none" THEN 401
                ELSE IF validateCreateOrderInput(items) # 0
                     THEN validateCreateOrderInput(items)
                ELSE computeOrderTotals(items, stock, active)
     IN  req' = IF err # 0 THEN Answer(r, err, 0)
                ELSE [req EXCEPT ![r].pc = "tx", ![r].k = 1,
                                 ![r].quote = price]
  /\ UNCHANGED <<stock, price, active, orders, payments, addresses, lock,
                 carts, cartItems>>

\* one tx.product.updateMany of createOrder's transaction, and the throw
\* that rolls the transaction back when it matches no row
TxReserve(r) ==
  /\ req[r].op = "createOrder" /\ req[r].pc = "tx"
  /\ req[r].k <= Len(req[r].items)
  /\ LET items == req[r].items
         k == req[r].k
         p == items[k].productId
         q == items[k].quantity
         cur == stock[p] - DecUpTo(items, k - 1, p)
     IN  /\ lock[p] \in {0, r}
         /\ IF reserveMatches(cur, q)
            THEN /\ lock' = [lock EXCEPT ![p] = r]
                 /\ req' = [req EXCEPT ![r].k = k + 1]
                 /\ stock' = stock
            ELSE /\ lock' = Unlock(r)
                 /\ req' = Answer(r, 409, 0)
                 /\ stock' = rollback(stock, items, k)
  /\ UNCHANGED <<price, active, orders, payments, addresses, carts, cartItems>>

\* tx.order.create with its nested orderItems, the optional
\* tx.shippingAddress.create and tx.payment.create, and the commit, which
\* makes the decrements of the transaction visible
TxCommit(r) ==
  /\ req[r].op = "createOrder" /\ req[r].pc = "tx"
  /\ req[r].k = Len(req[r].items) + 1
  /\ stock' = [p \in Products |->
                 stock[p] - DecUpTo(req[r].items, Len(req[r].items), p)]
  /\ orders' = Append(orders,
                      orderRow(userIdOf(req[r].caller, req[r].bodyUser),
                               req[r].items, req[r].quote))
  /\ addresses' = IF req[r].addr
                  THEN Append(addresses, [orderId |-> Len(orders) + 1,
                                          address |-> OrderAddress])
                  ELSE addresses
  /\ payments' = IF req[r].pay
                 THEN Append(payments,
                        [orderId |-> Len(orders) + 1,
                         amount |-> toColumn(orderTotals(req[r].items,
                                                         req[r].quote).total),
                         status |-> "PENDING", provider |-> PaymentMethod,
                         transactionId |-> ""])
                 ELSE payments
  /\ UNCHANGED <<price, active, carts, cartItems>>
  /\ lock' = Unlock(r)
  /\ req' = Answer(r, 201, Len(orders) + 1)

\* cancelMyOrder up to the status check on the row read by findUnique
CancelRead(r) ==
  /\ req[r].op = "cancelMyOrder" /\ req[r].pc = "start"
  /\ LET id == req[r].id
         err == IF req[r].caller = "none" THEN 401
                ELSE IF id \notin DOMAIN orders THEN 404
                ELSE IF orders[id].userId # req[r].caller THEN 403
                ELSE IF ~cancelable(orders[id].status) THEN 400
                ELSE 0
     IN  req' = IF err # 0 THEN Answer(r, err, 0)
                ELSE [req EXCEPT ![r].pc = "tx", ![r].k = 1,
                                 ![r].seen = orders[id].status]
  /\ UNCHANGED <<stock, price, active, orders, payments, addresses, lock,
                 carts, cartItems>>

\* one tx.product.update (increment) of cancelMyOrder's transaction
CancelRestore(r) ==
  /\ req[r].op = "cancelMyOrder" /\ req[r].pc = "tx"
  /\ req[r].k <= Len(orders[req[r].id].items)
  /\ LET p == orders[req[r].id].items[req[r].k].productId
     IN  /\ lock[p] \in {0, r}
         /\ lock' = [lock EXCEPT ![p] = r]
  /\ req' = [req EXCEPT ![r].k = req[r].k + 1]
  /\ UNCHANGED <<stock, price, active, orders, payments, addresses,
                 carts, cartItems>>

CancelCommit_refundsPayment(r) ==
  /\ req[r].op = "cancelMyOrder" /\ req[r].pc = "tx"
  /\ req[r].k = Len(orders[req[r].id].items) + 1
  /\ stock' = [p \in Products |->
                 stock[p] + restoreQty(orders[req[r].id].items, p)]
  /\ orders' = [orders EXCEPT ![req[r].id].status = "CANCELED"]
  /\ payments' =
       [i \in DOMAIN payments |->
          IF payments[i].orderId = req[r].id
          THEN [payments[i] EXCEPT !.status = "REFUNDED"]
          ELSE payments[i]]
  /\ lock' = Unlock(r)
  /\ UNCHANGED <<price, active, addresses, carts, cartItems>>
  /\ req' = Answer(r, 200, req[r].id)

\* tx.order.update to CANCELED, and the commit
CancelCommit(r) ==
  /\ req[r].op = "cancelMyOrder" /\ req[r].pc = "tx"
  /\ req[r].k = Len(orders[req[r].id].items) + 1
  /\ stock' = [p \in Products |->
                 stock[p] + restoreQty(orders[req[r].id].items, p)]
  /\ orders' = [orders EXCEPT ![req[r].id].status = "CANCELED"]
  /\ lock' = Unlock(r)
  /\ UNCHANGED <<price, active, payments, addresses, carts, cartItems>>
  /\ req' = Answer(r, 200, req[r].id)

UpdateOrderStatus_releasesStock(r) ==
  /\ req[r].op = "updateOrderStatus" /\ req[r].pc = "start"
  /\ LET id == req[r].id
         t == req[r].target
         err == IF ~mayUpdateStatus(req[r].caller) THEN 403
                ELSE IF t \notin allowedStatuses THEN 400
                ELSE IF t \notin OrderStatus THEN 500
                ELSE IF id \notin DOMAIN orders THEN 404
                ELSE 0
     IN  IF err # 0
         THEN /\ req' = Answer(r, err, 0)
              /\ orders' = orders
              /\ stock' = stock
         ELSE /\ req' = Answer(r, 200, 0)
              /\ orders' = [orders EXCEPT ![id].status = t]
              /\ stock' = IF t = "CANCELED"
                          THEN [p \in Products |->
                                  stock[p] + restoreQty(orders[id].items, p)]
                          ELSE stock
  /\ UNCHANGED <<price, active, payments, addresses, lock, carts, cartItems>>

\* updateOrderStatus: the checks and the one prisma.order.update
UpdateOrderStatus(r) ==
  /\ req[r].op = "updateOrderStatus" /\ req[r].pc = "start"
  /\ LET id == req[r].id
         t == req[r].target
         err == IF ~mayUpdateStatus(req[r].caller) THEN 403
                ELSE IF t \notin allowedStatuses THEN 400
                ELSE IF t \notin OrderStatus THEN 500
                ELSE IF id \notin DOMAIN orders THEN 404
                ELSE 0
     IN  IF err # 0
         THEN /\ req' = Answer(r, err, 0)
              /\ orders' = orders
         ELSE /\ req' = Answer(r, 200, 0)
              /\ orders' = [orders EXCEPT ![id].status = t]
  /\ UNCHANGED <<stock, price, active, payments, addresses, lock,
                 carts, cartItems>>

UpdateProduct_repricesOrders(p, pr, a) ==
  /\ lock[p] = 0
  /\ price' = IF pr # 0 THEN [price EXCEPT ![p] = pr] ELSE price
  /\ active' = IF a # "absent" THEN [active EXCEPT ![p] = (a = "true")]
               ELSE active
  /\ orders' = [n \in DOMAIN orders |->
                  orderRow(orders[n].userId, orders[n].items, price')]
  /\ UNCHANGED <<stock, payments, addresses, lock, req, carts, cartItems>>

\* updateProduct, mounted behind authorizeAdmin: one prisma.product.update
\* of the row of p, which waits for the row lock; price and isActive are
\* written when the body holds them
UpdateProduct(p, pr, a) ==
  /\ lock[p] = 0
  /\ price' = IF pr # 0 THEN [price EXCEPT ![p] = pr] ELSE price
  /\ active' = IF a # "absent" THEN [active EXCEPT ![p] = (a = "true")]
               ELSE active
  /\ UNCHANGED <<stock, orders, payments, addresses, lock, req,
                 carts, cartItems>>

\* POST /api/orders/:orderId/payment reaches createPayment
BeginCreatePayment(r, c, id) ==
  /\ CanBegin(r)
  /\ req' = [req EXCEPT ![r] = [IdleReq EXCEPT !.op = "createPayment",
               !.caller = c, !.id = id, !.txn = PayTransactionId,
               !.pc = "start", !.conc = InFlight("createPayment")]]
  /\ UNCHANGED <<stock, price, active, orders, payments, addresses, lock,
                 carts, cartItems>>

\* createPayment up to the checks on the order read by findUnique
PayReadOrder(r) ==
  /\ req[r].op = "createPayment" /\ req[r].pc = "start"
  /\ LET id == req[r].id
         c == req[r].caller
     IN  req' =
           IF c = "none" THEN AnswerMsg(r, 401, id, "Unauthorized")
           ELSE IF id \notin DOMAIN orders
                THEN AnswerMsg(r, 404, id, "Order not found")
           ELSE IF orders[id].userId # c /\ ~isAdmin(c)
                THEN AnswerMsg(r, 403, id, "Forbidden")
           ELSE IF orders[id].status = "CANCELED"
                THEN AnswerMsg(r, 400, id,
                               "Cannot create payment for canceled order")
           ELSE [req EXCEPT ![r].pc = "check", ![r].amt = orders[id].total]
  /\ UNCHANGED <<stock, price, active, orders, payments, addresses, lock,
                 carts, cartItems>>

\* the findUnique of the order's payment and the check of existing
PayReadExisting(r) ==
  /\ req[r].op = "createPayment" /\ req[r].pc = "check"
  /\ req' = IF existingPayment(payments, req[r].id)
            THEN AnswerMsg(r, 400, req[r].id, "Payment already exists")
            ELSE [req EXCEPT ![r].pc = "write"]
  /\ UNCHANGED <<stock, price, active, orders, payments, addresses, lock,
                 carts, cartItems>>

\* prisma.payment.create; errorHandler answers P2002 with 400
PayCreate(r) ==
  /\ req[r].op = "createPayment" /\ req[r].pc = "write"
  /\ IF uniqueViolation(payments, req[r].id)
     THEN /\ req' = AnswerMsg(r, 400, req[r].id, "Duplicate entry")
          /\ payments' = payments
     ELSE /\ req' = Answer(r, 201, req[r].id)
          /\ payments' = Append(payments,
                            [orderId |-> req[r].id, amount |-> req[r].amt,
                             status |-> "PENDING", provider |-> PayProvider,
                             transactionId |-> req[r].txn])
  /\ UNCHANGED <<stock, price, active, orders, addresses, lock,
                 carts, cartItems>>

\* PATCH /api/orders/:orderId/payment/status reaches updatePaymentStatus
\* with status t and transactionId x in its body
BeginUpdatePaymentStatus(r, c, id, t, x) ==
  /\ CanBegin(r)
  /\ req' = [req EXCEPT ![r] = [IdleReq EXCEPT !.op = "updatePaymentStatus",
               !.caller = c, !.id = id, !.target = t, !.txn = x,
               !.pc = "start", !.conc = InFlight("updatePaymentStatus")]]
  /\ UNCHANGED <<stock, price, active, orders, payments, addresses, lock,
                 carts, cartItems>>

PayStatusRead_ownerOnly(r) ==
  /\ req[r].op = "updatePaymentStatus" /\ req[r].pc = "start"
  /\ LET id == req[r].id
         found == findPayment(payments, id)
     IN  req' =
           IF req[r].caller # orders[id].userId /\ ~isAdmin(req[r].caller)
           THEN AnswerMsg(r, 403, id, "Forbidden")
           ELSE IF req[r].target \notin PaymentStatus
           THEN AnswerMsg(r, 400, id, "Invalid payment status")
           ELSE IF found = {}
                THEN AnswerMsg(r, 404, id, "Payment not found")
           ELSE LET row == payments[CHOOSE i \in found : TRUE]
                IN  [req EXCEPT ![r].pc = "write", ![r].seen = row.status,
                                ![r].seenTxn = row.transactionId]
  /\ UNCHANGED <<stock, price, active, orders, payments, addresses, lock,
                 carts, cartItems>>

\* updatePaymentStatus up to the findUnique of the payment
PayStatusRead(r) ==
  /\ req[r].op = "updatePaymentStatus" /\ req[r].pc = "start"
  /\ LET id == req[r].id
         found == findPayment(payments, id)
     IN  req' =
           IF req[r].target \notin PaymentStatus
           THEN AnswerMsg(r, 400, id, "Invalid payment status")
           ELSE IF found = {}
                THEN AnswerMsg(r, 404, id, "Payment not found")
           ELSE LET row == payments[CHOOSE i \in found : TRUE]
                IN  [req EXCEPT ![r].pc = "write", ![r].seen = row.status,
                                ![r].seenTxn = row.transactionId]
  /\ UNCHANGED <<stock, price, active, orders, payments, addresses, lock,
                 carts, cartItems>>

\* the prisma.payment.update of updatePaymentStatus
PayStatusWrite(r) ==
  /\ req[r].op = "updatePaymentStatus" /\ req[r].pc = "write"
  /\ payments' = updatePayment(payments, req[r].id, req[r].target,
                               IF req[r].txn # "" THEN req[r].txn
                               ELSE req[r].seenTxn)
  /\ req' = Answer(r, 200, req[r].id)
  /\ UNCHANGED <<stock, price, active, orders, addresses, lock,
                 carts, cartItems>>

\* PATCH /api/orders/:orderId/payment/refund reaches refundPayment
BeginRefund(r, c, id) ==
  /\ CanBegin(r)
  /\ req' = [req EXCEPT ![r] = [IdleReq EXCEPT !.op = "refundPayment",
               !.caller = c, !.id = id, !.pc = "start",
               !.conc = InFlight("refundPayment")]]
  /\ UNCHANGED <<stock, price, active, orders, payments, addresses, lock,
                 carts, cartItems>>

\* refundPayment up to the status check on the row read by findUnique
RefundRead(r) ==
  /\ req[r].op = "refundPayment" /\ req[r].pc = "start"
  /\ LET id == req[r].id
         found == findPayment(payments, id)
     IN  req' =
           IF ~isAdmin(req[r].caller) THEN AnswerMsg(r, 403, id, "Forbidden")
           ELSE IF found = {}
                THEN AnswerMsg(r, 404, id, "Payment not found")
           ELSE LET row == payments[CHOOSE i \in found : TRUE]
                IN  IF ~refundable(row.status)
                    THEN AnswerMsg(r, 400, id,
                                   "Only paid payments can be refunded")
                    ELSE [req EXCEPT ![r].pc = "write",
                                     ![r].seen = row.status]
  /\ UNCHANGED <<stock, price, active, orders, payments, addresses, lock,
                 carts, cartItems>>

RefundWrite_cancelsOrder(r) ==
  /\ req[r].op = "refundPayment" /\ req[r].pc = "write"
  /\ payments' =
       [i \in DOMAIN payments |->
          IF payments[i].orderId = req[r].id
          THEN [payments[i] EXCEPT !.status = "REFUNDED"]
          ELSE payments[i]]
  /\ orders' = [orders EXCEPT ![req[r].id].status = "CANCELED"]
  /\ stock' = [p \in Products |->
                 stock[p] + restoreQty(orders[req[r].id].items, p)]
  /\ req' = Answer(r, 200, req[r].id)
  /\ UNCHANGED <<price, active, addresses, lock, carts, cartItems>>

\* the prisma.payment.update of refundPayment
RefundWrite(r) ==
  /\ req[r].op = "refundPayment" /\ req[r].pc = "write"
  /\ payments' =
       [i \in DOMAIN payments |->
          IF payments[i].orderId = req[r].id
          THEN [payments[i] EXCEPT !.status = "REFUNDED"]
          ELSE payments[i]]
  /\ req' = Answer(r, 200, req[r].id)
  /\ UNCHANGED <<stock, price, active, orders, addresses, lock,
                 carts, cartItems>>

\* validateAddress: 400 when a field of the body is missing, 0 otherwise
validateAddress(b) == IF b = "" THEN 400 ELSE 0

\* prisma.shippingAddress.findUnique({ where: { orderId } }) on rows
findAddress(rows, o) == {i \in DOMAIN rows : rows[i].orderId = o}

\* if (existingAddress) of the shipping address handlers
existingAddress(rows, o) == findAddress(rows, o) # {}

addressUniqueViolation_noIndex(rows, o) == FALSE

\* the unique index shipping_addresses_orderId_key rejects the insert of a
\* second row for order o (Prisma error P2002)
addressUniqueViolation(rows, o) == findAddress(rows, o) # {}

\* POST /api/orders/:orderId/address reaches createShippingAddress with the
\* address b in its body
BeginCreateShippingAddress(r, c, id, b) ==
  /\ CanBegin(r)
  /\ req' = [req EXCEPT ![r] = [IdleReq EXCEPT
               !.op = "createShippingAddress", !.caller = c, !.id = id,
               !.body = b, !.pc = "start",
               !.conc = InFlight("createShippingAddress")]]
  /\ UNCHANGED <<stock, price, active, orders, payments, addresses, lock,
                 carts, cartItems>>

\* createShippingAddress up to the check of existingAddress.  The order read
\* before it gives the same row at any time (orders are never deleted and
\* keep their userId), so the two reads are one step.  Without req.user the
\* read of req.user.id throws a TypeError, which errorHandler answers 500.
CreateAddressRead(r) ==
  /\ req[r].op = "createShippingAddress" /\ req[r].pc = "start"
  /\ LET id == req[r].id
         c == req[r].caller
     IN  req' =
           IF c = "none" THEN Answer(r, 500, id)
           ELSE IF validateAddress(req[r].body) # 0
                THEN AnswerMsg(r, 400, id, "Missing field")
           ELSE IF id \notin DOMAIN orders \/ orders[id].userId # c
                THEN AnswerMsg(r, 404, id, "Order not found")
           ELSE IF existingAddress(addresses, id)
                THEN AnswerMsg(r, 400, id,
                       "Shipping address already exists for this order")
           ELSE [req EXCEPT ![r].pc = "write"]
  /\ UNCHANGED <<stock, price, active, orders, payments, addresses, lock,
                 carts, cartItems>>

\* prisma.shippingAddress.create; errorHandler answers P2002 with 400
CreateAddressWrite(r) ==
  /\ req[r].op = "createShippingAddress" /\ req[r].pc = "write"
  /\ IF addressUniqueViolation(addresses, req[r].id)
     THEN /\ req' = AnswerMsg(r, 400, req[r].id, "Duplicate entry")
          /\ addresses' = addresses
     ELSE /\ req' = Answer(r, 201, req[r].id)
          /\ addresses' = Append(addresses, [orderId |-> req[r].id,
                                             address |-> req[r].body])
  /\ UNCHANGED <<stock, price, active, orders, payments, lock,
                 carts, cartItems>>

\* PATCH /api/orders/:orderId/address reaches updateShippingAddress with the
\* address b in its body
BeginUpdateShippingAddress(r, c, id, b) ==
  /\ CanBegin(r)
  /\ req' = [req EXCEPT ![r] = [IdleReq EXCEPT
               !.op = "updateShippingAddress", !.caller = c, !.id = id,
               !.body = b, !.pc = "start",
               !.conc = InFlight("updateShippingAddress")]]
  /\ UNCHANGED <<stock, price, active, orders, payments, addresses, lock,
                 carts, cartItems>>

\* updateShippingAddress up to the check of existingAddress
UpdateAddressRead(r) ==
  /\ req[r].op = "updateShippingAddress" /\ req[r].pc = "start"
  /\ LET id == req[r].id
         c == req[r].caller
     IN  req' =
           IF c = "none" THEN Answer(r, 500, id)
           ELSE IF validateAddress(req[r].body) # 0
                THEN AnswerMsg(r, 400, id, "Missing field")
           ELSE IF id \notin DOMAIN orders
                   \/ (orders[id].userId # c /\ ~isAdmin(c))
                THEN AnswerMsg(r, 404, id, "Order not found")
           ELSE IF ~existingAddress(addresses, id)
                THEN AnswerMsg(r, 404, id,
                       "Shipping address not found for this order")
           ELSE [req EXCEPT ![r].pc = "write"]
  /\ UNCHANGED <<stock, price, active, orders, payments, addresses, lock,
                 carts, cartItems>>

\* prisma.shippingAddress.update; errorHandler answers P2025 (the row is
\* gone) with 404
UpdateAddressWrite(r) ==
  /\ req[r].op = "updateShippingAddress" /\ req[r].pc = "write"
  /\ IF existingAddress(addresses, req[r].id)
     THEN /\ req' = Answer(r, 200, req[r].id)
          /\ addresses' =
               [i \in DOMAIN addresses |->
                  IF addresses[i].orderId = req[r].id
                  THEN [addresses[i] EXCEPT !.address = req[r].body]
                  ELSE addresses[i]]
     ELSE /\ req' = AnswerMsg(r, 404, req[r].id, "Record not found")
          /\ addresses' = addresses
  /\ UNCHANGED <<stock, price, active, orders, payments, lock,
                 carts, cartItems>>

\* DELETE /api/orders/:orderId/address reaches deleteShippingAddress
BeginDeleteShippingAddress(r, c, id) ==
  /\ CanBegin(r)
  /\ req' = [req EXCEPT ![r] = [IdleReq EXCEPT
               !.op = "deleteShippingAddress", !.caller = c, !.id = id,
               !.pc = "start",
               !.conc = InFlight("deleteShippingAddress")]]
  /\ UNCHANGED <<stock, price, active, orders, payments, addresses, lock,
                 carts, cartItems>>

\* deleteShippingAddress up to the check of existingAddress
DeleteAddressRead(r) ==
  /\ req[r].op = "deleteShippingAddress" /\ req[r].pc = "start"
  /\ LET id == req[r].id
         c == req[r].caller
     IN  req' =
           IF c = "none" THEN Answer(r, 500, id)
           ELSE IF id \notin DOMAIN orders \/ orders[id].userId # c
                THEN AnswerMsg(r, 404, id, "Order not found")
           ELSE IF ~existingAddress(addresses, id)
                THEN AnswerMsg(r, 404, id,
                       "Shipping address not found for this order")
           ELSE [req EXCEPT ![r].pc = "write"]
  /\ UNCHANGED <<stock, price, active, orders, payments, addresses, lock,
                 carts, cartItems>>

\* prisma.shippingAddress.delete; errorHandler answers P2025 with 404
DeleteAddressWrite(r) ==
  /\ req[r].op = "deleteShippingAddress" /\ req[r].pc = "write"
  /\ IF existingAddress(addresses, req[r].id)
     THEN /\ req' = Answer(r, 200, req[r].id)
          /\ addresses' = SelectSeq(addresses,
                             LAMBDA a : a.orderId # req[r].id)
     ELSE /\ req' = AnswerMsg(r, 404, req[r].id, "Record not found")
          /\ addresses' = addresses
  /\ UNCHANGED <<stock, price, active, orders, payments, lock,
                 carts, cartItems>>

\* prisma.cartItem.findUnique by cartId_productId on rows (the cart of a
\* user is named by the user)
findCartItem(rows, c, p) ==
  {i \in DOMAIN rows : rows[i].cart = c /\ rows[i].productId = p}

\* the unique index on CartItem [cartId, productId] rejects the insert of a
\* second row for product p in cart c (Prisma error P2002)
cartItemUniqueViolation(rows, c, p) == findCartItem(rows, c, p) # {}

increment_set(cur, q) == q

\* quantity: { increment: quantity }: SET quantity = quantity + q, computed
\* by the database on the row it updates
increment(cur, q) == cur + q

\* POST /api/cart reaches addToCart with productId p and quantity q
BeginAddToCart(r, c, p, q) ==
  /\ CanBegin(r)
  /\ req' = [req EXCEPT ![r] = [IdleReq EXCEPT !.op = "addToCart",
               !.caller = c, !.items = <<Line(p, q)>>, !.pc = "start",
               !.conc = InFlight("addToCart")]]
  /\ UNCHANGED <<stock, price, active, orders, payments, addresses, lock,
                 carts, cartItems>>

\* addToCart up to the checks on the product read by findUnique.  Without
\* req.user the read of req.user.id throws a TypeError, answered 500.
CartReadProduct(r) ==
  /\ req[r].op = "addToCart" /\ req[r].pc = "start"
  /\ LET p == req[r].items[1].productId
         q == req[r].items[1].quantity
     IN  req' =
           IF req[r].caller = "none" THEN Answer(r, 500, 0)
           ELSE IF q < 1
                THEN AnswerMsg(r, 400, 0, "Quantity must be at least 1")
           ELSE IF p \notin Products
                THEN AnswerMsg(r, 404, 0, "Product not found")
           ELSE IF ~active[p]
                THEN AnswerMsg(r, 400, 0, "Product is not available")
           ELSE [req EXCEPT ![r].pc = "cart"]
  /\ UNCHANGED <<stock, price, active, orders, payments, addresses, lock,
                 carts, cartItems>>

\* prisma.cart.upsert: the cart of the caller exists afterwards
CartUpsert(r) ==
  /\ req[r].op = "addToCart" /\ req[r].pc = "cart"
  /\ carts' = carts \cup {req[r].caller}
  /\ req' = [req EXCEPT ![r].pc = "check"]
  /\ UNCHANGED <<stock, price, active, orders, payments, addresses, lock,
                 cartItems>>

\* prisma.cartItem.upsert, first half: the lookup of the row by
\* cartId_productId that decides between update and create
CartItemRead(r) ==
  /\ req[r].op = "addToCart" /\ req[r].pc = "check"
  /\ LET found == findCartItem(cartItems, req[r].caller,
                               req[r].items[1].productId)
     IN  req' = [req EXCEPT ![r].pc = "write",
                   ![r].seen = IF found # {} THEN "found" ELSE "absent"]
  /\ UNCHANGED <<stock, price, active, orders, payments, addresses, lock,
                 carts, cartItems>>

\* prisma.cartItem.upsert, second half: the update that increments the
\* quantity of the row found, or the insert of a new row, which the unique
\* index rejects when a row for the product has appeared meanwhile
\* (P2002, answered 400 by errorHandler)
CartItemWrite(r) ==
  /\ req[r].op = "addToCart" /\ req[r].pc = "write"
  /\ LET c == req[r].caller
         p == req[r].items[1].productId
         q == req[r].items[1].quantity
     IN  IF req[r].seen = "found"
         THEN /\ cartItems' =
                   [i \in DOMAIN cartItems |->
                      IF cartItems[i].cart = c /\ cartItems[i].productId = p
                      THEN [cartItems[i] EXCEPT
                              !.quantity = increment(cartItems[i].quantity, q)]
                      ELSE cartItems[i]]
              /\ req' = Answer(r, 200, 0)
         ELSE IF cartItemUniqueViolation(cartItems, c, p)
              THEN /\ cartItems' = cartItems
                   /\ req' = AnswerMsg(r, 400, 0, "Duplicate entry")
              ELSE /\ cartItems' = Append(cartItems,
                        [cart |-> c, productId |-> p, quantity |-> q])
                   /\ req' = Answer(r, 200, 0)
  /\ UNCHANGED <<stock, price, active, orders, payments, addresses, lock,
                 carts>>

\* the product whose row lock the next statement of r needs (r is in "tx")
NextRow(r) ==
  LET items == IF req[r].op = "createOrder" THEN req[r].items
               ELSE orders[req[r].id].items
  IN  IF req[r].k <= Len(items) THEN items[req[r].k].productId ELSE "-"

\* the transaction r waits for, 0 when r does not wait
WaitsFor(r) ==
  IF req[r].pc = "tx" /\ NextRow(r) \in Products
     /\ lock[NextRow(r)] \notin {0, r}
  THEN lock[NextRow(r)] ELSE 0

RECURSIVE WaitChain(_, _)
\* the transaction reached from r after n steps of the waits-for relation
WaitChain(r, n) ==
  IF n = 0 \/ r = 0 THEN r ELSE WaitChain(WaitsFor(r), n - 1)

Deadlocked(r) == \E n \in 1..MaxReq : WaitChain(r, n) = r

\* PostgreSQL's deadlock detector aborts a transaction of a waits-for
\* cycle; the Prisma error carries no statusCode (errorHandler: 500)
DeadlockAbort(r) ==
  /\ req[r].pc = "tx" /\ Deadlocked(r)
  /\ lock' = Unlock(r)
  /\ req' = Answer(r, 500, 0)
  /\ UNCHANGED <<stock, price, active, orders, payments, addresses,
                 carts, cartItems>>

Next ==
  \/ \E r \in Requests, in \in CreateInputs :
       BeginCreateOrder(r, in[1], "none", in[2], in[3], in[4])
  \/ \E r \in Requests, c \in Callers, id \in 1..(Len(orders) + 1) :
       BeginCancel(r, c, id)
  \/ \E r \in Requests, in \in UpdateInputs, id \in 1..(Len(orders) + 1) :
       BeginUpdate(r, in[1], id, in[2])
  \/ \E r \in Requests : CreateOrderPrice(r)
  \/ \E r \in Requests : TxReserve(r)
  \/ \E r \in Requests : TxCommit(r)
  \/ \E r \in Requests : CancelRead(r)
  \/ \E r \in Requests : CancelRestore(r)
  \/ \E r \in Requests : CancelCommit(r)
  \/ \E r \in Requests : UpdateOrderStatus(r)
  \/ \E r \in Requests : DeadlockAbort(r)

Spec == Init /\ [][Next]_vars

\* createOrder with the request bodies of IntakeInputs, while an
\* administrator edits the price of p1 and the isActive flag of p2
CreateNext ==
  \/ \E r \in Requests, in \in IntakeInputs :
       BeginCreateOrder(r, in[1], in[2], in[3], in[4], in[5])
  \/ \E pr \in PriceInputs \ {0} : UpdateProduct("p1", pr, "absent")
  \/ \E a \in ActiveInputs \ {"absent"} : UpdateProduct("p2", 0, a)
  \/ \E r \in Requests : CreateOrderPrice(r)
  \/ \E r \in Requests : TxReserve(r)
  \/ \E r \in Requests : TxCommit(r)

CreateSpec == Init /\ [][CreateNext]_vars

\* the Payment row of order 1 in state s with transaction id x
InitPayment(s, x) ==
  [orderId |-> 1,
   amount |-> orderRow("u1", <<Line("p1", 1)>>, InitPrice).total,
   status |-> s, provider |-> PaymentMethod, transactionId |-> x]

\* the database after u1 has ordered one piece of p1: the order has no
\* payment, or the PENDING payment createOrder made for it, or that payment
\* after the gateway reported it PAID
PayInit ==
  /\ stock = [InitStock EXCEPT !["p1"] = InitStock["p1"] - 1]
  /\ price = InitPrice
  /\ active = [p \in Products |-> TRUE]
  /\ orders = <<orderRow("u1", <<Line("p1", 1)>>, InitPrice)>>
  /\ payments \in {<< >>, <<InitPayment("PENDING", "")>>,
                   <<InitPayment("PAID", "t0")>>}
  /\ addresses = << >>
  /\ carts = {}
  /\ cartItems = << >>
  /\ lock = [p \in Products |-> 0]
  /\ req = [r \in Requests |-> IdleReq]

\* the payment handlers, together with cancelMyOrder, updateOrderStatus, a
\* createOrder that carries a paymentMethod and a price edit of p1
PayNext ==
  \/ \E r \in Requests :
       BeginCreateOrder(r, "u1", "none", <<Line("p1", 1)>>, FALSE, TRUE)
  \/ \E r \in Requests, id \in DOMAIN orders :
       BeginCancel(r, "u1", id)
  \/ \E r \in Requests, id \in DOMAIN orders :
       BeginUpdate(r, "admin", id, "CANCELED")
  \/ \E r \in Requests, c \in PayCallers, id \in DOMAIN orders :
       BeginCreatePayment(r, c, id)
  \/ \E r \in Requests, in \in PayStatusInputs,
        id \in DOMAIN orders :
       BeginUpdatePaymentStatus(r, "none", id, in[1], in[2])
  \/ \E r \in Requests, c \in {"u1", "admin"},
        id \in DOMAIN orders :
       BeginRefund(r, c, id)
  \/ \E pr \in PriceInputs \ {0} : UpdateProduct("p1", pr, "absent")
  \/ \E r \in Requests : CreateOrderPrice(r)
  \/ \E r \in Requests : TxReserve(r)
  \/ \E r \in Requests : TxCommit(r)
  \/ \E r \in Requests : CancelRead(r)
  \/ \E r \in Requests : CancelRestore(r)
  \/ \E r \in Requests : CancelCommit(r)
  \/ \E r \in Requests : UpdateOrderStatus(r)
  \/ \E r \in Requests : PayReadOrder(r)
  \/ \E r \in Requests : PayReadExisting(r)
  \/ \E r \in Requests : PayCreate(r)
  \/ \E r \in Requests : PayStatusRead(r)
  \/ \E r \in Requests : PayStatusWrite(r)
  \/ \E r \in Requests : RefundRead(r)
  \/ \E r \in Requests : RefundWrite(r)

PaySpec == PayInit /\ [][PayNext]_vars

\* updatePaymentStatus alone, called by every kind of caller with every body
StatusNext ==
  \/ \E r \in Requests, c \in PayCallers, in \in StatusBodies,
        id \in DOMAIN orders :
       BeginUpdatePaymentStatus(r, c, id, in[1], in[2])
  \/ \E r \in Requests : PayStatusRead(r)
  \/ \E r \in Requests : PayStatusWrite(r)

StatusSpec == PayInit /\ [][StatusNext]_vars

\* the database after u1 has ordered one piece of p1, without a payment
LifeInit ==
  /\ stock = [InitStock EXCEPT !["p1"] = InitStock["p1"] - 1]
  /\ price = InitPrice
  /\ active = [p \in Products |-> TRUE]
  /\ orders = <<orderRow("u1", <<Line("p1", 1)>>, InitPrice)>>
  /\ payments = << >>
  /\ addresses = << >>
  /\ carts = {}
  /\ cartItems = << >>
  /\ lock = [p \in Products |-> 0]
  /\ req = [r \in Requests |-> IdleReq]

\* the life of an order without catalog edits: createOrder, cancelMyOrder
\* by the owner and updateOrderStatus by an administrator
LifeNext ==
  \/ \E r \in Requests :
       BeginCreateOrder(r, "u1", "none", <<Line("p1", 1)>>, FALSE, FALSE)
  \/ \E r \in Requests, id \in DOMAIN orders :
       BeginCancel(r, "u1", id)
  \/ \E r \in Requests, id \in DOMAIN orders, t \in {"PENDING", "SHIPPED"} :
       BeginUpdate(r, "admin", id, t)
  \/ \E r \in Requests : CreateOrderPrice(r)
  \/ \E r \in Requests : TxReserve(r)
  \/ \E r \in Requests : TxCommit(r)
  \/ \E r \in Requests : CancelRead(r)
  \/ \E r \in Requests : CancelRestore(r)
  \/ \E r \in Requests : CancelCommit(r)
  \/ \E r \in Requests : UpdateOrderStatus(r)

LifeSpec == LifeInit /\ [][LifeNext]_vars

\* the database after u1 has ordered one piece of p1, without a shipping
\* address or with the one createOrder stored
AddrInit ==
  /\ stock = [InitStock EXCEPT !["p1"] = InitStock["p1"] - 1]
  /\ price = InitPrice
  /\ active = [p \in Products |-> TRUE]
  /\ orders = <<orderRow("u1", <<Line("p1", 1)>>, InitPrice)>>
  /\ payments = << >>
  /\ addresses \in {<< >>, <<[orderId |-> 1, address |-> OrderAddress]>>}
  /\ carts = {}
  /\ cartItems = << >>
  /\ lock = [p \in Products |-> 0]
  /\ req = [r \in Requests |-> IdleReq]

\* the shipping address handlers, and a createOrder that carries a
\* shippingAddress
AddrNext ==
  \/ \E r \in Requests :
       BeginCreateOrder(r, "u1", "none", <<Line("p1", 1)>>, TRUE, FALSE)
  \/ \E r \in Requests, c \in {"u1", "admin", "none"},
        id \in DOMAIN orders, b \in AddressBodies :
       BeginCreateShippingAddress(r, c, id, b)
  \/ \E r \in Requests, c \in {"u1", "admin"}, id \in DOMAIN orders :
       BeginUpdateShippingAddress(r, c, id, UpdatedAddress)
  \/ \E r \in Requests, id \in DOMAIN orders :
       BeginDeleteShippingAddress(r, "u1", id)
  \/ \E r \in Requests : CreateOrderPrice(r)
  \/ \E r \in Requests : TxReserve(r)
  \/ \E r \in Requests : TxCommit(r)
  \/ \E r \in Requests : CreateAddressRead(r)
  \/ \E r \in Requests : CreateAddressWrite(r)
  \/ \E r \in Requests : UpdateAddressRead(r)
  \/ \E r \in Requests : UpdateAddressWrite(r)
  \/ \E r \in Requests : DeleteAddressRead(r)
  \/ \E r \in Requests : DeleteAddressWrite(r)

AddrSpec == AddrInit /\ [][AddrNext]_vars

\* the catalog with no order, where u1 has no cart yet or a cart that holds
\* one piece of p1
CartInit ==
  /\ stock = InitStock
  /\ price = InitPrice
  /\ active = [p \in Products |-> TRUE]
  /\ orders = << >>
  /\ payments = << >>
  /\ addresses = << >>
  /\ \/ carts = {} /\ cartItems = << >>
     \/ /\ carts = {"u1"}
        /\ cartItems = <<[cart |-> "u1", productId |-> "p1",
                            quantity |-> 1]>>
  /\ lock = [p \in Products |-> 0]
  /\ req = [r \in Requests |-> IdleReq]

\* addToCart, and the catalog edit that deactivates p2
CartNext ==
  \/ \E r \in Requests, c \in {"u1", "none"}, in \in CartBodies :
       BeginAddToCart(r, c, in.productId, in.quantity)
  \/ UpdateProduct("p2", 0, "false")
  \/ \E r \in Requests : CartReadProduct(r)
  \/ \E r \in Requests : CartUpsert(r)
  \/ \E r \in Requests : CartItemRead(r)
  \/ \E r \in Requests : CartItemWrite(r)

CartSpec == CartInit /\ [][CartNext]_vars
----------------------------------------------------------------------------
(* Vocabulary of the properties *)

Done(r, op) == req[r].op = op /\ req[r].pc = "done"

\* r answered in this step
Answers(r) == req[r].pc # "done" /\ req'[r].pc = "done"

\* the handlers of r1 and r2, two requests for the same operation,
\* overlapped in time (conc holds the requests for the same operation that
\* were running when the handler began)
Overlap(r1, r2) == r1 \in req[r2].conc \/ r2 \in req[r1].conc

RECURSIVE OrderedQty(_, _)
\* total quantity of product p in the OrderItems of orders 1..n
OrderedQty(n, p) ==
  IF n = 0 THEN 0 ELSE OrderedQty(n - 1, p) + QtyOf(orders[n].items, p)

RECURSIVE RestoredQty(_, _)
\* total quantity of product p in the orders of the cancelMyOrder requests
\* 1..n that succeeded, an order counted once per success
RestoredQty(n, p) ==
  IF n = 0 THEN 0
  ELSE RestoredQty(n - 1, p)
       + (IF Done(n, "cancelMyOrder") /\ req[n].outcome = 200
          THEN QtyOf(orders[req[n].id].items, p) ELSE 0)

\* C1: in every reachable state every product's stock is >= 0, in the
\* committed rows and in the rows as an open createOrder transaction has
\* written them so far
C1_StockNeverNegative ==
  /\ \A p \in Products : stock[p] >= 0
  /\ \A r \in Requests, p \in Products :
       (req[r].op = "createOrder" /\ req[r].pc = "tx")
         => stock[p] - DecUpTo(req[r].items, req[r].k - 1, p) >= 0

\* two overlapping createOrder requests competed for p1: one was served and
\* the other lost the conditional decrement
C1_Witness ==
  \E r1, r2 \in Requests :
    /\ Done(r1, "createOrder") /\ Done(r2, "createOrder") /\ Overlap(r1, r2)
    /\ req[r1].outcome = 201 /\ req[r2].outcome = 409
    /\ stock["p1"] = 4

\* C2: createOrder is all-or-nothing.  The committed stock is the initial
\* stock minus the quantities of the orders that exist (plus what successful
\* cancellations gave back): no decrement without its order, no order without
\* its decrement.  A createOrder that answered 201 has its order with all its
\* items; one that answered anything else has no order, and no Payment or
\* ShippingAddress row exists without its order.
C2_AllOrNothing ==
  /\ \A p \in Products :
       stock[p] = InitStock[p] - OrderedQty(Len(orders), p)
                    + RestoredQty(MaxReq, p)
  /\ \A r \in Requests : Done(r, "createOrder") =>
       IF req[r].outcome = 201
       THEN req[r].id \in DOMAIN orders
            /\ orders[req[r].id].items = req[r].items
       ELSE req[r].id = 0
  /\ Len(orders) =
       Cardinality({r \in Requests :
                      Done(r, "createOrder") /\ req[r].outcome = 201})
  /\ \A r1, r2 \in Requests :
       (Done(r1, "createOrder") /\ Done(r2, "createOrder") /\ r1 # r2
        /\ req[r1].outcome = 201 /\ req[r2].outcome = 201)
         => req[r1].id # req[r2].id
  /\ \A i \in DOMAIN payments : payments[i].orderId \in DOMAIN orders
  /\ \A i \in DOMAIN addresses : addresses[i].orderId \in DOMAIN orders

\* a createOrder of two lines was rolled back at its second line: its first
\* decrement had been applied inside the transaction, and the committed stock
\* is the initial one with no order
C2_Witness ==
  \E r \in Requests :
    /\ Done(r, "createOrder") /\ req[r].outcome = 409
    /\ Len(req[r].items) = 2
    /\ orders = << >> /\ stock = InitStock
    /\ \A r2 \in Requests \ {r} : req[r2].op = "none"

\* scenario B: r1 and r2 are the only requests, two overlapping createOrder
\* requests of authenticated callers for quantity 6 of p1 (initial stock
\* 10), and both have answered
ScenarioB(r1, r2) ==
  /\ r1 # r2 /\ Overlap(r1, r2)
  /\ Done(r1, "createOrder") /\ Done(r2, "createOrder")
  /\ req[r1].outcome # 401 /\ req[r2].outcome # 401
  /\ req[r1].items = <<Line("p1", 6)>> /\ req[r2].items = <<Line("p1", 6)>>
  /\ \A r \in Requests \ {r1, r2} : req[r].op = "none"

\* C3 as stated: in scenario B exactly one request succeeds, the final stock
\* is 4 and the loser's outcome is 409
C3_LoserGetsConflict ==
  \A r1, r2 \in Requests :
    (ScenarioB(r1, r2) /\ req[r1].outcome = 201)
      => /\ stock["p1"] = 4
         /\ req[r2].outcome = 409

\* C3 amended: in scenario B exactly one request succeeds, the final stock is
\* 4, and the loser's outcome is 409 (it lost the conditional decrement) or
\* 400 (its catalog read came after the winner's commit)
C3_ExactlyOneSucceeds ==
  \A r1, r2 \in Requests :
    ScenarioB(r1, r2) =>
      /\ req[r1].outcome = 201 \/ req[r2].outcome = 201
      /\ stock["p1"] = 4
      /\ req[r1].outcome = 201 => req[r2].outcome \in {409, 400}

\* scenario B ended with the loser answered 409
C3_Witness ==
  \E r1, r2 \in Requests :
    ScenarioB(r1, r2) /\ req[r1].outcome = 201 /\ req[r2].outcome = 409
\* r answered 200/201 in this step: its write was committed
Performs(r) == Answers(r) /\ req'[r].outcome \in {200, 201}

\* no updateOrderStatus has written a status so far
NoStatusUpdate ==
  ~ \E r \in Requests :
      Done(r, "updateOrderStatus") /\ req[r].outcome = 200

RECURSIVE OpenQty(_, _)
\* total quantity of product p in those of orders 1..n that are not CANCELED
OpenQty(n, p) ==
  IF n = 0 THEN 0
  ELSE OpenQty(n - 1, p)
       + (IF orders[n].status # "CANCELED"
          THEN QtyOf(orders[n].items, p) ELSE 0)

\* C4: self-service cancellation fires at most once per order: of two
\* overlapping cancelMyOrder requests for the same order at most one
\* succeeds, and (as long as no administrator has rewritten a status) the
\* quantities of a canceled order are back in stock exactly once
C4_CancelFiresOnce ==
  /\ \A r1, r2 \in Requests :
       (r1 # r2 /\ Overlap(r1, r2)
        /\ Done(r1, "cancelMyOrder") /\ Done(r2, "cancelMyOrder")
        /\ req[r1].id = req[r2].id)
         => ~(req[r1].outcome = 200 /\ req[r2].outcome = 200)
  /\ NoStatusUpdate =>
       \A p \in Products :
         stock[p] = InitStock[p] - OpenQty(Len(orders), p)

\* the commit of a createOrder takes exactly the ordered quantity of every
\* product off the stock, and the quantity was available
C5_CommitStep ==
  \A r \in Requests :
    (req[r].op = "createOrder" /\ Answers(r) /\ req'[r].outcome = 201) =>
      LET o == req'[r].id
      IN  /\ o = Len(orders) + 1
          /\ orders'[o].items = req[r].items
          /\ \A p \in Products :
               /\ stock'[p] = stock[p] - QtyOf(orders'[o].items, p)
               /\ QtyOf(orders'[o].items, p) <= stock[p]

\* what the orders hold of a product, less what cancellations gave back,
\* never exceeds the initial stock
C5_NoOversell ==
  \A p \in Products :
    OrderedQty(Len(orders), p) <= InitStock[p] + RestoredQty(MaxReq, p)

\* C5: every successful createOrder lowers each product's stock by exactly
\* the quantity ordered of it, and the quantities sold never exceed the stock
\* there was to sell
C5_ExactDecrementNoOversell == [][C5_CommitStep]_vars /\ []C5_NoOversell

\* two overlapping createOrder requests were both served and no cancellation
\* happened
C5_Witness ==
  \E r1, r2 \in Requests :
    /\ r1 # r2 /\ Overlap(r1, r2)
    /\ Done(r1, "createOrder") /\ req[r1].outcome = 201
    /\ Done(r2, "createOrder") /\ req[r2].outcome = 201
    /\ \A r \in Requests : req[r].op # "cancelMyOrder"
    /\ stock["p1"] = InitStock["p1"] - QtyOf(req[r1].items, "p1")
                       - QtyOf(req[r2].items, "p1")
    /\ stock["p1"] < InitStock["p1"]

\* the transaction of a cancelMyOrder ends: on success every product gets
\* back the order's quantity and the order is CANCELED in the same step, on
\* failure neither happens
C6_CancelStep ==
  \A r \in Requests :
    (req[r].op = "cancelMyOrder" /\ req[r].pc = "tx" /\ Answers(r)) =>
      LET o == req[r].id
      IN  IF req'[r].outcome = 200
          THEN /\ \A p \in Products :
                    stock'[p] = stock[p] + QtyOf(orders[o].items, p)
               /\ orders'[o] = [orders[o] EXCEPT !.status = "CANCELED"]
          ELSE stock' = stock /\ orders' = orders

\* stock is only ever added by a cancelMyOrder that succeeds in that step
C6_OnlyCancelAdds ==
  (\E p \in Products : stock'[p] > stock[p]) =>
    \E r \in Requests :
      req[r].op = "cancelMyOrder" /\ Answers(r) /\ req'[r].outcome = 200

\* a createOrder and then a cancelMyOrder of its order, and nothing else
CreateThenCancel(r1, r2) ==
  /\ Done(r1, "createOrder") /\ req[r1].outcome = 201
  /\ Done(r2, "cancelMyOrder") /\ req[r2].outcome = 200
  /\ req[r2].id = req[r1].id
  /\ \A r \in Requests \ {r1, r2} : req[r].op = "none"

C6_RoundTrip ==
  \A r1, r2 \in Requests :
    CreateThenCancel(r1, r2) =>
      stock = InitStock /\ orders[req[r1].id].status = "CANCELED"

\* C6: createOrder followed by a successful cancelMyOrder returns every
\* product's stock to its value before the order and leaves the order
\* CANCELED; the increments and the status change are one step
C6_CancelRestoresStock ==
  [][C6_CancelStep /\ C6_OnlyCancelAdds]_vars /\ []C6_RoundTrip

\* an order of two products was created and then canceled
C6_Witness ==
  \E r1, r2 \in Requests :
    /\ CreateThenCancel(r1, r2)
    /\ QtyOf(req[r1].items, "p1") > 0 /\ QtyOf(req[r1].items, "p2") > 0

\* C7: a cancelMyOrder of the owner that reads its order with a status other
\* than PENDING answers 400 and changes no order, stock, payment or address
C7_NonPendingCancelRejected ==
  [][\A r \in Requests :
       (/\ req[r].op = "cancelMyOrder" /\ req[r].pc = "start"
        /\ req'[r] # req[r]
        /\ req[r].id \in DOMAIN orders
        /\ orders[req[r].id].userId = req[r].caller
        /\ orders[req[r].id].status # "PENDING")
         => /\ req'[r].pc = "done" /\ req'[r].outcome = 400
            /\ UNCHANGED <<stock, orders, payments, addresses>>]_vars

\* a cancelMyOrder was rejected with 400 while an order exists that is not
\* PENDING
C7_Witness ==
  \E r \in Requests :
    /\ Done(r, "cancelMyOrder") /\ req[r].outcome = 400
    /\ \E o \in DOMAIN orders : orders[o].status # "PENDING"

\* order o becomes CANCELED in this step
BecomesCanceled(o) ==
  orders[o].status # "CANCELED" /\ orders'[o].status = "CANCELED"

C9_AdminSetsEveryDeclaredStatus ==
  [][\A r \in Requests :
       (/\ req[r].op = "updateOrderStatus" /\ Answers(r)
        /\ isAdmin(req[r].caller)
        /\ req[r].id \in DOMAIN orders)
         => IF req[r].target \in OrderStatus
            THEN /\ req'[r].outcome = 200
                 /\ orders'[req[r].id].status = req[r].target
            ELSE /\ req'[r].outcome = 400
                 /\ orders' = orders]_vars

Terminal == {"DELIVERED", "CANCELED"}

C11_StatusUpdateKeepsStock ==
  [][\A r \in Requests :
       (req[r].op = "updateOrderStatus" /\ req'[r] # req[r])
         => /\ stock' = stock
            /\ (req'[r].outcome = 200 /\ req[r].target = "CANCELED")
                 => /\ orders'[req[r].id].status = "CANCELED"
                    /\ \A p \in Products :
                         stock'[p] = InitStock[p] - OrderedQty(Len(orders), p)
                                       + RestoredQty(MaxReq, p)]_vars

\* an administrator has moved an order to CANCELED, no cancelMyOrder was
\* ever made, and the order's quantity is still off the stock
C11_Witness ==
  \E o \in DOMAIN orders :
    /\ orders[o].status = "CANCELED"
    /\ \E r \in Requests :
         Done(r, "updateOrderStatus") /\ req[r].outcome = 200
    /\ \A r \in Requests : req[r].op # "cancelMyOrder"
    /\ QtyOf(orders[o].items, "p1") > 0
    /\ stock["p1"] = InitStock["p1"] - OrderedQty(Len(orders), "p1")

\* C12: an updateOrderStatus of a caller who is no administrator, and a
\* cancelMyOrder of an authenticated caller who is not the owner of the
\* order (an administrator included), answer 403 and change no order and
\* no stock
C12_UnauthorizedChangesNothing ==
  [][\A r \in Requests :
       (/\ req[r].pc = "start" /\ req'[r] # req[r]
        /\ \/ /\ req[r].op = "updateOrderStatus"
              /\ ~isAdmin(req[r].caller)
           \/ /\ req[r].op = "cancelMyOrder"
              /\ req[r].caller # "none"
              /\ req[r].id \in DOMAIN orders
              /\ orders[req[r].id].userId # req[r].caller)
         => /\ req'[r].pc = "done" /\ req'[r].outcome = 403
            /\ orders' = orders /\ stock' = stock]_vars

\* an ordinary user's updateOrderStatus and an administrator's cancelMyOrder
\* of the user's order were both answered 403, and the order is PENDING with
\* its quantity off the stock
C12_Witness ==
  \E r1, r2 \in Requests :
    /\ Done(r1, "updateOrderStatus") /\ req[r1].outcome = 403
    /\ Done(r2, "cancelMyOrder") /\ req[r2].outcome = 403
    /\ Len(orders) = 1 /\ orders[1].status = "PENDING"
    /\ stock["p1"] = InitStock["p1"] - QtyOf(orders[1].items, "p1")
    /\ stock["p1"] < InitStock["p1"]

RECURSIVE ItemSubtotals(_, _)
\* the sum of the subtotals of the first n OrderItems of order row o
ItemSubtotals(o, n) ==
  IF n = 0 THEN 0 ELSE ItemSubtotals(o, n - 1) + o.priced[n].subtotal

\* what C13 says of every order but its tax: the subtotal is the sum of the
\* item subtotals, an item subtotal is unit price times quantity, and
\* total = subtotal + tax + shippingFee - discount
SumsExact(o) ==
  /\ o.subtotal = ItemSubtotals(o, Len(o.priced))
  /\ \A i \in DOMAIN o.priced :
       o.priced[i].subtotal = o.priced[i].unitPrice * o.items[i].quantity
  /\ o.total = o.subtotal + o.tax + o.shippingFee - o.discount

LineFails(items, i) ==
  \/ items[i].productId \notin Products
  \/ ~active[items[i].productId]
  \/ items[i].quantity > stock[items[i].productId]

\* the first line of the body that cannot be priced
FirstFailing(items) ==
  CHOOSE i \in 1..Len(items) :
    LineFails(items, i) /\ \A j \in 1..(i - 1) : ~LineFails(items, j)

\* the status createOrder must answer to the body, 0 for a body without a
\* defect: 400 for an empty list and for a quantity <= 0, else 404 or 400
\* for the first line that cannot be priced
DefectOf(items) ==
  IF Len(items) = 0 THEN 400
  ELSE IF \E i \in 1..Len(items) : items[i].quantity <= 0 THEN 400
  ELSE IF \A i \in 1..Len(items) : ~LineFails(items, i) THEN 0
  ELSE IF items[FirstFailing(items)].productId \notin Products THEN 404
  ELSE 400

\* C14: a createOrder of an identified caller whose body has a defect (an
\* empty list, a quantity <= 0, an unknown product, an inactive product, a
\* quantity above the current stock) answers 400, or 404 for the unknown
\* product, in the step that reads the catalog: it never enters the
\* transaction, and no stock, order, payment, address or lock changes
C14_DefectFailsBeforeAnyWrite ==
  [][\A r \in Requests :
       (/\ req[r].op = "createOrder" /\ req[r].pc = "start"
        /\ req'[r] # req[r]
        /\ userIdOf(req[r].caller, req[r].bodyUser) # "none"
        /\ DefectOf(req[r].items) # 0)
         => /\ req'[r].pc = "done"
            /\ req'[r].outcome = DefectOf(req[r].items)
            /\ req'[r].id = 0
            /\ UNCHANGED <<stock, orders, payments, addresses, lock>>]_vars

\* three createOrder requests were rejected, one for an unknown product
\* (404), one for an order of the inactive p2 and one for an empty list
\* (400), and the database holds no order and the initial stock
C14_Witness ==
  \E r1, r2, r3 \in Requests :
    /\ Done(r1, "createOrder") /\ req[r1].outcome = 404
    /\ req[r1].items = <<Line("px", 1)>>
    /\ Done(r2, "createOrder") /\ req[r2].outcome = 400
    /\ req[r2].items = <<Line("p2", 1)>> /\ ~active["p2"]
    /\ Done(r3, "createOrder") /\ req[r3].outcome = 400
    /\ req[r3].items = << >>
    /\ orders = << >> /\ stock = InitStock /\ payments = << >>

Money(o) ==
  <<o.subtotal, o.tax, o.discount, o.shippingFee, o.total, o.items, o.priced>>

\* C16: no step changes the subtotal, tax, discount, shippingFee or total of
\* an existing order, nor the quantity, unit price, subtotal or product name
\* of its OrderItems: not cancelMyOrder, updateOrderStatus, a payment
\* handler, a later createOrder or a price edit of the product
C16_MoneyNeverChanges ==
  [][\A n \in DOMAIN orders :
       n \in DOMAIN orders' /\ Money(orders'[n]) = Money(orders[n])]_vars

\* order 1, priced at 10.00, was canceled and its payment was updated; the
\* price of p1 is now 12.50 and a later order is priced at 12.50, while
\* order 1 still has unit price 10.00 and total 11.50
C16_Witness ==
  /\ Len(orders) = 2
  /\ orders[1].status = "CANCELED"
  /\ \E r \in Requests :
       Done(r, "updatePaymentStatus") /\ req[r].outcome = 200 /\ req[r].id = 1
  /\ price["p1"] = 125000
  /\ orders[2].priced[1].unitPrice = 125000
  /\ orders[1].priced[1].unitPrice = 100000
  /\ orders[1].subtotal = 100000 /\ orders[1].tax = 15000
  /\ orders[1].total = 115000

\* C17: no two Payment rows belong to the same order, in any interleaving
\* of createOrder with a payment method and createPayment requests
C17_AtMostOnePayment ==
  \A i, j \in DOMAIN payments :
    payments[i].orderId = payments[j].orderId => i = j

\* two overlapping createPayment requests for the same order both passed
\* the check of existing: one created the payment, the insert of the other
\* was rejected, and the order has one Payment row
C17_Witness ==
  \E r1, r2 \in Requests :
    /\ Done(r1, "createPayment") /\ Done(r2, "createPayment")
    /\ Overlap(r1, r2) /\ req[r1].id = req[r2].id
    /\ req[r1].outcome = 201
    /\ req[r2].outcome = 400 /\ req[r2].msg = "Duplicate entry"
    /\ Cardinality(findPayment(payments, req[r1].id)) = 1

\* C18: a createPayment of the owner or an administrator that finds a
\* Payment of its (not canceled) order answers 400 'Payment already
\* exists', and no step of a createPayment for an order that has a Payment
\* changes a Payment row
C18_SecondPaymentRejected ==
  [][\A r \in Requests :
       (/\ req[r].op = "createPayment" /\ req'[r] # req[r]
        /\ \E i \in DOMAIN payments : payments[i].orderId = req[r].id)
         => /\ payments' = payments
            /\ req[r].pc = "check"
                 => /\ req'[r].pc = "done" /\ req'[r].outcome = 400
                    /\ req'[r].msg = "Payment already exists"]_vars

\* a createPayment for order 1 was answered 400 'Payment already exists'
\* and the order's PAID payment is as it was
C18_Witness ==
  \E r \in Requests :
    /\ Done(r, "createPayment") /\ req[r].id = 1
    /\ req[r].outcome = 400 /\ req[r].msg = "Payment already exists"
    /\ payments = <<InitPayment("PAID", "t0")>>

\* the status of the Payment of order o
StatusOfPayment(o) ==
  payments[CHOOSE i \in DOMAIN payments : payments[i].orderId = o].status

\* C19: refundPayment answers 403 to a caller who is no administrator and
\* 400 to an administrator when the status it reads is not PAID, both
\* without a change; it writes only after it has read PAID as an
\* administrator, and its write sets the status REFUNDED, changes nothing
\* else and answers 200
C19_RefundOnlyPaidByAdmin ==
  [][\A r \in Requests :
       (req[r].op = "refundPayment" /\ req'[r] # req[r]) =>
         IF req[r].pc = "start"
         THEN /\ payments' = payments
              /\ IF ~isAdmin(req[r].caller)
                 THEN req'[r].pc = "done" /\ req'[r].outcome = 403
                 ELSE IF \A i \in DOMAIN payments :
                           payments[i].orderId # req[r].id
                      THEN req'[r].pc = "done" /\ req'[r].outcome = 404
                 ELSE IF StatusOfPayment(req[r].id) = "PAID"
                      THEN req'[r].pc = "write"
                 ELSE req'[r].pc = "done" /\ req'[r].outcome = 400
         ELSE /\ isAdmin(req[r].caller) /\ req[r].seen = "PAID"
              /\ req'[r].pc = "done" /\ req'[r].outcome = 200
              /\ DOMAIN payments' = DOMAIN payments
              /\ \A i \in DOMAIN payments :
                   payments'[i] =
                     IF payments[i].orderId = req[r].id
                     THEN [payments[i] EXCEPT !.status = "REFUNDED"]
                     ELSE payments[i]]_vars

\* an administrator refunded the PAID payment of order 1, a second refund
\* made after the first was answered 400, a refund by the owner was
\* answered 403, and the payment is REFUNDED
C19_Witness ==
  \E r1, r2, r3 \in Requests :
    /\ Done(r1, "refundPayment") /\ req[r1].outcome = 200
    /\ Done(r2, "refundPayment") /\ req[r2].outcome = 400
    /\ Done(r3, "refundPayment") /\ req[r3].outcome = 403
    /\ r1 < r2 /\ ~Overlap(r1, r2)
    /\ req[r1].id = 1 /\ req[r2].id = 1 /\ req[r3].id = 1
    /\ StatusOfPayment(1) = "REFUNDED"

\* C20: whenever refundPayment writes REFUNDED, the status of the payment
\* in the database is PAID immediately before the write
C20_RefundWritesOverPaid ==
  [][\A r \in Requests :
       (req[r].op = "refundPayment" /\ req[r].pc = "write"
        /\ req'[r] # req[r])
         => StatusOfPayment(req[r].id) = "PAID"]_vars

\* the transaction id of the payment of order o
TransactionIdOfPayment(o) ==
  payments[CHOOSE i \in DOMAIN payments : payments[i].orderId = o]
    .transactionId

\* C21: updatePaymentStatus answers 400 to a status outside the enum and 404
\* when the order has no payment, both without a change; otherwise its write
\* sets the status to the target whatever the status was, sets the
\* transaction id to the supplied one, or leaves the transaction id the
\* payment has when none is supplied, and answers 200
C21_StatusUpdateOverwrites ==
  [][\A r \in Requests :
       (req[r].op = "updatePaymentStatus" /\ req'[r] # req[r]) =>
         IF req[r].pc = "start"
         THEN /\ payments' = payments
              /\ IF req[r].target \notin PaymentStatus
                 THEN req'[r].pc = "done" /\ req'[r].outcome = 400
                 ELSE IF \A i \in DOMAIN payments :
                           payments[i].orderId # req[r].id
                      THEN req'[r].pc = "done" /\ req'[r].outcome = 404
                 ELSE req'[r].pc = "write"
         ELSE /\ req'[r].pc = "done" /\ req'[r].outcome = 200
              /\ payments' =
                   updatePayment(payments, req[r].id, req[r].target,
                     IF req[r].txn # "" THEN req[r].txn
                     ELSE TransactionIdOfPayment(req[r].id))]_vars

\* what a step of the updatePaymentStatus request q does on the payment rows
\* rows, computed from the order, the body and what the handler has read,
\* and from nothing about the caller
StatusResult(q, rows) ==
  IF q.pc = "start"
  THEN IF q.target \notin PaymentStatus
       THEN [pc |-> "done", outcome |-> 400, rows |-> rows]
       ELSE IF \A i \in DOMAIN rows : rows[i].orderId # q.id
            THEN [pc |-> "done", outcome |-> 404, rows |-> rows]
       ELSE [pc |-> "write", outcome |-> 0, rows |-> rows]
  ELSE [pc |-> "done", outcome |-> 200,
        rows |-> [i \in DOMAIN rows |->
                   IF rows[i].orderId = q.id
                   THEN [rows[i] EXCEPT !.status = q.target,
                           !.transactionId =
                             IF q.txn # "" THEN q.txn ELSE q.seenTxn]
                   ELSE rows[i]]]

C23_RefundKeepsOrderAndStock ==
  [][\A r \in Requests :
       (req[r].op = "refundPayment" /\ req'[r] # req[r])
         => UNCHANGED <<orders, stock>>]_vars

\* the PAID payment of order 1 was refunded, and order 1 is PENDING with its
\* piece of p1 still reserved
C23_Witness ==
  \E r \in Requests :
    /\ Done(r, "refundPayment") /\ req[r].outcome = 200 /\ req[r].id = 1
    /\ StatusOfPayment(1) = "REFUNDED"
    /\ orders[1].status = "PENDING"
    /\ stock["p1"] = InitStock["p1"] - 1

\* C28: createPayment inserts a payment row only for an order whose status
\* is not CANCELED at the insert
C28_NoPaymentForCanceledOrder ==
  [][\A r \in Requests :
       (req[r].op = "createPayment" /\ payments' # payments)
         => orders[req[r].id].status # "CANCELED"]_vars

\* C30: no step of cancelMyOrder changes a payment row
C30_CancelKeepsPayment ==
  [][\A r \in Requests :
       (req[r].op = "cancelMyOrder" /\ req'[r] # req[r])
         => payments' = payments]_vars

\* the owner canceled the PENDING order 1, whose payment was PAID, and the
\* payment is still PAID with its amount and its transaction id
C30_Witness ==
  \E r \in Requests :
    /\ Done(r, "cancelMyOrder") /\ req[r].outcome = 200 /\ req[r].id = 1
    /\ orders[1].status = "CANCELED"
    /\ payments = <<InitPayment("PAID", "t0")>>

\* the items are two lines for one product
TwoLinesOneProduct(items) ==
  Len(items) = 2 /\ items[1].productId = items[2].productId

\* C29: a createOrder with two lines for the same product that has passed
\* the stock check of each line, and whose two quantities together exceed
\* the stock of the product, ends with 409, with the stock of every product
\* as it was and without a new order, payment or address
C29_SplitLinesCannotOversell ==
  [][\A r \in Requests :
       (/\ req[r].op = "createOrder" /\ req[r].pc = "tx"
        /\ TwoLinesOneProduct(req[r].items)
        /\ req[r].items[1].quantity + req[r].items[2].quantity
             > stock[req[r].items[1].productId]
        /\ Answers(r))
         => /\ req'[r].outcome = 409
            /\ UNCHANGED <<stock, orders, payments, addresses>>]_vars

\* a createOrder for 6 and 6 pieces of p1, each line within the stock of 10,
\* was answered 409, and the stock is the initial one and no order exists
C29_Witness ==
  \E r \in Requests :
    /\ Done(r, "createOrder") /\ req[r].outcome = 409
    /\ req[r].items = <<Line("p1", 6), Line("p1", 6)>>
    /\ stock = InitStock /\ orders = << >>

NoCancelOverlap ==
  \A r1, r2 \in Requests :
    (r1 # r2 /\ req[r1].op = "cancelMyOrder" /\ req[r2].op = "cancelMyOrder")
      => ~Overlap(r1, r2)

\* C26: as long as no two cancellations overlap, the stock of no product
\* exceeds its initial value (the products are not edited)
C26_StockNeverAboveInitial ==
  NoCancelOverlap => \A p \in Products : stock[p] <= InitStock[p]

\* no order has two ShippingAddress rows
AtMostOneAddress ==
  \A o \in DOMAIN orders : Cardinality(findAddress(addresses, o)) <= 1

\* C24: no order ever has two shipping addresses; no step of a
\* createShippingAddress for an order that has an address changes the
\* addresses, and its answer to the owner with a complete body is 400; so an
\* address is created only for an order that has none, which an order with
\* an address becomes through deleteShippingAddress alone
C24_OneAddressPerOrder ==
  [][/\ AtMostOneAddress /\ AtMostOneAddress'
     /\ \A r \in Requests :
          (/\ req[r].op = "createShippingAddress" /\ req'[r] # req[r]
           /\ existingAddress(addresses, req[r].id))
            => /\ addresses' = addresses
               /\ (/\ Answers(r) /\ req[r].caller = orders[req[r].id].userId
                   /\ validateAddress(req[r].body) = 0)
                    => req'[r].outcome = 400
     /\ \A o \in DOMAIN orders :
          (existingAddress(addresses, o) /\ ~existingAddress(addresses', o))
            => \E r \in Requests :
                 /\ req[r].op = "deleteShippingAddress" /\ req[r].id = o
                 /\ Answers(r) /\ req'[r].outcome = 200]_vars

\* order 1 had the address of its createOrder; a createShippingAddress of
\* the owner was answered 400, a deleteShippingAddress 200 and a later
\* createShippingAddress 201, and order 1 has the one new address
C24_Witness ==
  \E r1, r2, r3 \in Requests :
    /\ r1 < r2 /\ r2 < r3
    /\ Done(r1, "createShippingAddress") /\ req[r1].outcome = 400
    /\ req[r1].msg = "Shipping address already exists for this order"
    /\ Done(r2, "deleteShippingAddress") /\ req[r2].outcome = 200
    /\ Done(r3, "createShippingAddress") /\ req[r3].outcome = 201
    /\ req[r1].id = 1 /\ req[r2].id = 1 /\ req[r3].id = 1
    /\ addresses = <<[orderId |-> 1, address |-> "a1"]>>

\* no cart holds two items for one product
AtMostOneItem ==
  \A i, j \in DOMAIN cartItems :
    (cartItems[i].cart = cartItems[j].cart
     /\ cartItems[i].productId = cartItems[j].productId) => i = j

\* C25: no cart ever holds two items for one product, and the write of an
\* addToCart that found the product in the cart answers 200 and adds the
\* requested quantity to the quantity the item has at that moment, leaving
\* every other item as it was: overlapping calls add up
C25_AddToCartIncrements ==
  [][/\ AtMostOneItem /\ AtMostOneItem'
     /\ \A r \in Requests :
          (/\ req[r].op = "addToCart" /\ req[r].pc = "write"
           /\ req[r].seen = "found" /\ req'[r] # req[r])
            => /\ req'[r].outcome = 200
               /\ DOMAIN cartItems' = DOMAIN cartItems
               /\ \A i \in DOMAIN cartItems :
                    cartItems'[i] =
                      IF /\ cartItems[i].cart = req[r].caller
                         /\ cartItems[i].productId
                              = req[r].items[1].productId
                      THEN [cartItems[i] EXCEPT !.quantity =
                              cartItems[i].quantity
                                + req[r].items[1].quantity]
                      ELSE cartItems[i]]_vars

\* the cart of u1 held one piece of p1; two overlapping addToCart calls, the
\* only requests, were both answered 200, and the single item of the cart
\* holds 4 pieces: 1 and the amounts 1 and 2 of the two calls
C25_Witness ==
  /\ Done(1, "addToCart") /\ req[1].outcome = 200
  /\ Done(2, "addToCart") /\ req[2].outcome = 200
  /\ Overlap(1, 2)
  /\ req[3].op = "none"
  /\ cartItems = <<[cart |-> "u1", productId |-> "p1", quantity |-> 4]>>
====
